---- MODULE Spec2Model ----
(***************************************************************************)
(* Model of the IT Systems Audit dashboard backend (src/server.py): the    *)
(* three document collections, the request handlers that read and write    *)
(* them, and the pure scoring / classification functions.                  *)
(*                                                                         *)
(* Risk scores are Python floats (IEEE-754 doubles).  A double d with      *)
(* 0 <= d < 8 that is a multiple of 2^-58 is represented exactly by the    *)
(* pair <<hi, lo>> with d = (hi * 2^30 + lo) * 2^-58 and 0 <= lo < 2^30.   *)
(* Every double that is 0.0 or lies in [2^-6, 8) is such a multiple; the   *)
(* scorer and the mean of a few scores stay in that range.  Addition,      *)
(* int*float multiplication and float/int division are exact integer       *)
(* operations followed by round-to-nearest-even to 53 significant bits,    *)
(* as the hardware does.                                                   *)
(***************************************************************************)
EXTENDS Integers, Sequences, FiniteSets, TLC

VARIABLES
    now,               \* datetime.now(timezone.utc), in whole hours since the epoch
    emergent_key,      \* EMERGENT_LLM_KEY: "none" when the variable is not set
    access_logs,       \* db.access_logs: sequence of UserAccessLog documents
    violations,        \* db.violations: sequence of AccessViolation documents
    risk_assessments,  \* db.risk_assessments: sequence of RiskAssessment documents
    next_id,           \* number of uuid4 identifiers handed out so far
    llm_calls,         \* number of chat.send_message calls made to the collaborator
    gens,              \* number of regenerations performed (bounded by MaxGens)
    response,          \* the last request and the HTTP response it got
    tasks,             \* the regeneration requests in flight, step by step
    arg,               \* pure-function harness: the input
    ret                \* pure-function harness: the value returned

vars == <<now, emergent_key, access_logs, violations, risk_assessments,
          next_id, llm_calls, gens, response, tasks, arg, ret>>

store == <<access_logs, violations, risk_assessments>>

----------------------------------------------------------------------------
(* IEEE-754 doubles in units of 2^-58, two limbs of 30 bits.               *)

Limb == 2^30
HalfLimb == 2^15

FZero == <<0, 0>>
F0_2 == <<53687091, 214748368>>      \* the double written 0.2
F0_3 == <<80530636, 858993456>>      \* the double written 0.3
F0_5 == <<134217728, 0>>             \* the double written 0.5
F0_6 == <<161061273, 644245088>>     \* the double written 0.6
F0_8 == <<214748364, 858993472>>     \* the double written 0.8
F1_0 == <<268435456, 0>>             \* the double written 1.0

FLt(a, b) == a[1] < b[1] \/ (a[1] = b[1] /\ a[2] < b[2])
FLe(a, b) == a = b \/ FLt(a, b)
FGt(a, b) == FLt(b, a)
FGe(a, b) == FLe(b, a)
FMin(a, b) == IF FLt(b, a) THEN b ELSE a     \* Python min(a, b)

\* carry from the low limb into the high limb
Carry(hi, lo) == <<hi + (lo \div Limb), lo % Limb>>

\* the exact (unrounded) sum
ExactAdd(a, b) == Carry(a[1] + b[1], a[2] + b[2])

\* the exact (unrounded) product n * x of an int and a double, by halving n
ExactDouble(a) == ExactAdd(a, a)

RECURSIVE ExactScale(_, _)
ExactScale(n, x) ==
    IF n = 0 THEN FZero
    ELSE IF n % 2 = 0 THEN ExactDouble(ExactScale(n \div 2, x))
    ELSE ExactAdd(ExactDouble(ExactScale(n \div 2, x)), x)

\* the unit in the last place, in units of 2^-58, of a value with high limb hi
Ulp(hi) ==
    IF hi < 2^23 THEN 1          \* [2^-6, 2^-5)
    ELSE IF hi < 2^24 THEN 2     \* [2^-5, 2^-4)
    ELSE IF hi < 2^25 THEN 4     \* [2^-4, 2^-3)
    ELSE IF hi < 2^26 THEN 8     \* [0.125, 0.25)
    ELSE IF hi < 2^27 THEN 16    \* [0.25, 0.5)
    ELSE IF hi < 2^28 THEN 32    \* [0.5, 1)
    ELSE IF hi < 2^29 THEN 64    \* [1, 2)
    ELSE IF hi < 2^30 THEN 128   \* [2, 4)
    ELSE 256                     \* [4, 8)

\* the value x + num/den units (0 <= num < den) rounded to a multiple of u,
\* to nearest, ties to even
RoundTo(x, num, den, u) ==
    LET r == x[2] % u
        twice == 2 * (r * den + num)
        odd == (x[2] \div u) % 2 = 1
        up == IF twice > u * den \/ (twice = u * den /\ odd) THEN u ELSE 0
    IN  IF r = 0 /\ num = 0 THEN x ELSE Carry(x[1], (x[2] - r) + up)

\* the exact value x + num/den units rounded to 53 significant bits
RoundFrac(x, num, den) == RoundTo(x, num, den, Ulp(x[1]))

RoundF(x) == RoundFrac(x, 0, 1)

FAdd(a, b) == RoundF(ExactAdd(a, b))        \* float + float
FMulInt(n, x) == RoundF(ExactScale(n, x))   \* int * float

\* float / int, by long division over 15-bit digits of the low limb
FDivInt(x, n) ==
    LET qh == x[1] \div n
        rh == x[1] % n
        t1 == rh * HalfLimb + (x[2] \div HalfLimb)
        t0 == (t1 % n) * HalfLimb + (x[2] % HalfLimb)
        ql == (t1 \div n) * HalfLimb + (t0 \div n)
    IN  RoundFrac(<<qh, ql>>, t0 % n, n)

\* sum(xs) for a sequence of floats: left to right from 0; acc is the sum of
\* xs[1..i-1], a value that is never negative
RECURSIVE FSumFrom(_, _, _)
FSumFrom(acc, xs, i) ==
    IF i > Len(xs) \/ acc[1] < 0 THEN acc
    ELSE FSumFrom(FAdd(acc, xs[i]), xs, i + 1)

FSum(xs) == FSumFrom(FZero, xs, 1)

----------------------------------------------------------------------------
(* Bounds.                                                                 *)

NumLogs == 2        \* records per regeneration (range(1200) in the source)
MaxGens == 2        \* regenerations in one behaviour
MaxAssess == 1      \* assessments made (collaborator calls) in one behaviour
MaxTicks == 1       \* clock advances in one behaviour
MaxFailed == 10     \* largest failed_attempts given to the pure functions
MaxTotal == 16      \* largest record count given to the compliance score
IdBlock == 100      \* identifiers set aside for one regeneration
NumTasks == 2       \* regeneration requests that can be in flight together
MaxStore == 5       \* most records in a store given to the read endpoints

----------------------------------------------------------------------------
(* Time.  A datetime is a whole number of hours since 1970-01-01T00:00Z    *)
(* (a Thursday); minutes and finer are not modelled.                       *)

DayOf(t) == t \div 24
HourOf(t) == t % 24                        \* datetime.hour
WeekdayOf(t) == (DayOf(t) + 3) % 7         \* datetime.weekday(), Monday = 0
ReplaceHour(t, h) == DayOf(t) * 24 + h     \* datetime.replace(hour=h)
DaysAgo(t, d) == t - 24 * d                \* t - timedelta(days=d)

\* the first moment of the behaviour: 2024-10-04T10:00Z, a Friday
StartTime == 20000 * 24 + 10
TickHours == 3

\* the moments the clock shows in one behaviour
ClockTimes == {StartTime + i * TickHours : i \in 0..MaxTicks}

----------------------------------------------------------------------------
(* Enums and documents.                                                    *)

AccessResult == {"success", "failed", "suspicious"}
RiskLevel == {"low", "medium", "high", "critical"}
ViolationType == {"unauthorized_access", "privilege_escalation",
                  "failed_authentication", "unusual_activity",
                  "segregation_duty_conflict"}
None == "None"

\* len(log.privilege_changes)
NumChanges(log) == Len(log.privilege_changes)

----------------------------------------------------------------------------
(* Helper functions.                                                       *)

\* lines 112 and 115: failed attempts, then privilege changes
risk_counts(log) ==
    FAdd(FAdd(FZero, FMulInt(log.failed_attempts, F0_2)),
         FMulInt(NumChanges(log), F0_3))

\* lines 118-121: the access result
risk_result(log, score) ==
    IF log.access_result = "failed" THEN FAdd(score, F0_5)
    ELSE IF log.access_result = "suspicious" THEN FAdd(score, F0_8)
    ELSE score

\* lines 124-126: off-hours access
risk_off_hours(hour, score) ==
    IF hour < 7 \/ hour > 19 THEN FAdd(score, F0_3) ELSE score

\* lines 129-130: weekend access
risk_weekend(log, score) ==
    IF WeekdayOf(log.access_time) >= 5 THEN FAdd(score, F0_2) ELSE score

\* lines 109-130: the score before the clamp
risk_sum(log) ==
    risk_weekend(log,
        risk_off_hours(HourOf(log.access_time),
            risk_result(log, risk_counts(log))))

calculate_risk_score_unclamped(log) == risk_sum(log)

calculate_risk_score(log) == FMin(risk_sum(log), F1_0)

determine_risk_level_strict(score) ==
    IF FGe(score, F0_8) THEN "critical"
    ELSE IF FGt(score, F0_6) THEN "high"
    ELSE IF FGe(score, F0_3) THEN "medium"
    ELSE "low"

determine_risk_level(score) ==
    IF FGe(score, F0_8) THEN "critical"
    ELSE IF FGe(score, F0_6) THEN "high"
    ELSE IF FGe(score, F0_3) THEN "medium"
    ELSE "low"

----------------------------------------------------------------------------
(* generate_sample_data: the random draws of one loop iteration.           *)

\* the sample users (two of the ten), as <<id, username, role>>
users == {<<"USR001", "john.doe", "admin">>, <<"USR002", "jane.smith", "user">>}

changes == {"elevated_to_admin", "access_granted_finance", "removed_hr_access"}

\* random.sample(changes, random.randint(1, 2))
SampleChanges ==
    {<<c>> : c \in changes} \cup
    {<<c, d>> : <<c, d>> \in {p \in changes \X changes : p[1] # p[2]}}

\* what the source allows one iteration to draw
ValidDraw(d) ==
    /\ d.user \in users
    /\ d.days \in 0..30
    /\ d.hour \in (8..18) \cup {6, 7, 19, 20, 21, 22, 23, 0, 1, 2}
    /\ d.access_result \in AccessResult
    /\ d.failed_attempts \in
          (IF d.access_result = "failed" THEN 1..5
           ELSE IF d.access_result = "suspicious" THEN 3..8
           ELSE {0})
    /\ d.privilege_changes \in {<< >>} \cup SampleChanges

Draw(u, dy, h, r, fa, pc) ==
    [user |-> u, days |-> dy, hour |-> h, access_result |-> r,
     failed_attempts |-> fa, privilege_changes |-> pc]

USR001 == <<"USR001", "john.doe", "admin">>
USR002 == <<"USR002", "jane.smith", "user">>

\* the draws explored: a sample of the draws the source allows
SampleDraws ==
    << Draw(USR001, 0, 12, "success", 0, << >>),
       Draw(USR001, 7, 12, "failed", 5, <<"elevated_to_admin">>),
       Draw(USR002, 8, 12, "success", 0,
            <<"elevated_to_admin", "access_granted_finance">>) >>

\* draws whose records score 0.0, 0.3, 0.6, 0.7, 0.8 and 1.0, and one whose
\* record scores 0.3 without being a violation
BandDraws ==
    << Draw(USR001, 0, 12, "success", 0, << >>),
       Draw(USR001, 0, 22, "success", 0, << >>),
       Draw(USR002, 1, 12, "success", 0, <<"elevated_to_admin">>),
       Draw(USR002, 0, 12, "success", 0,
            <<"elevated_to_admin", "access_granted_finance">>),
       Draw(USR001, 2, 12, "failed", 1, << >>),
       Draw(USR001, 5, 22, "success", 0, <<"elevated_to_admin">>),
       Draw(USR002, 0, 12, "failed", 5, <<"removed_hr_access">>) >>

ExploredDraws ==
    {SampleDraws[i] : i \in 1..Len(SampleDraws)}
        \cup {BandDraws[i] : i \in 1..Len(BandDraws)}

\* the draws of one regeneration: the iterations draw independently, so any
\* sequence can come up; those in the order of SampleDraws are explored
DrawSeqs ==
    LET idx == {f \in [1..NumLogs -> 1..Len(SampleDraws)] :
                  /\ \A i \in 1..NumLogs : ValidDraw(SampleDraws[f[i]])
                  /\ \A i \in 1..(NumLogs - 1) : f[i] <= f[i + 1]}
    IN  {[i \in 1..NumLogs |-> SampleDraws[f[i]]] : f \in idx}

\* lines 248-251: is the freshly scored record a violation?
is_violation_rule_no_changes(log) ==
    \/ FGt(log.risk_score, F0_6)
    \/ log.failed_attempts > 3
    \/ log.access_result = "suspicious"

is_violation_rule(log) ==
    \/ FGt(log.risk_score, F0_6)
    \/ log.failed_attempts > 3
    \/ NumChanges(log) > 0
    \/ log.access_result = "suspicious"

\* lines 256-265: the violation type of a record that is a violation
violation_type_swapped(log, hour) ==
    IF log.failed_attempts > 3 THEN "failed_authentication"
    ELSE IF NumChanges(log) > 0 THEN "privilege_escalation"
    ELSE IF log.access_result = "suspicious" THEN "unusual_activity"
    ELSE IF hour < 7 \/ hour > 19 THEN "unauthorized_access"
    ELSE "segregation_duty_conflict"

violation_type_rule(log, hour) ==
    IF NumChanges(log) > 0 THEN "privilege_escalation"
    ELSE IF log.failed_attempts > 3 THEN "failed_authentication"
    ELSE IF log.access_result = "suspicious" THEN "unusual_activity"
    ELSE IF hour < 7 \/ hour > 19 THEN "unauthorized_access"
    ELSE "segregation_duty_conflict"

\* lines 230-242: UserAccessLog(...) with the model's defaults
NewLog(id, d, t) ==
    [id |-> id, user_id |-> d.user[1], username |-> d.user[2],
     user_role |-> d.user[3],
     access_time |-> ReplaceHour(DaysAgo(t, d.days), d.hour),
     access_result |-> d.access_result,
     failed_attempts |-> d.failed_attempts,
     privilege_changes |-> d.privilege_changes,
     is_violation |-> FALSE, violation_type |-> None,
     risk_score |-> FZero, created_at |-> t]

\* lines 248-265: flag and type the scored record
classify(log, hour) ==
    IF is_violation_rule(log)
    THEN [log EXCEPT !.is_violation = TRUE,
                     !.violation_type = violation_type_rule(log, hour)]
    ELSE log

\* lines 244-265: score the record, then flag and type it
score_and_classify(log0, hour) ==
    classify([log0 EXCEPT !.risk_score = calculate_risk_score(log0)], hour)

\* the scored record of each explored draw at each moment, computed once:
\* the identifier plays no part in the score or the classification
ScoredDraws ==
    [d \in ExploredDraws, t \in ClockTimes |->
        score_and_classify(NewLog(0, d, t), d.hour)]

ScoredLog(id, d, t) == [ScoredDraws[d, t] EXCEPT !.id = id]

\* lines 268-274: AccessViolation(...)
NewViolation_own_id(id, log, t) ==
    [id |-> id, log_id |-> id, violation_type |-> log.violation_type,
     severity |-> determine_risk_level(log.risk_score),
     detected_at |-> t, resolved |-> FALSE]

NewViolation(id, log, t) ==
    [id |-> id, log_id |-> log.id, violation_type |-> log.violation_type,
     severity |-> determine_risk_level(log.risk_score),
     detected_at |-> t, resolved |-> FALSE]

\* lines 266-277: the record joins the logs, and with it a violation when it
\* is flagged; acc is <<logs, violations, last identifier used>>
collect(acc, log, t) ==
    IF log.is_violation
    THEN <<Append(acc[1], log),
           Append(acc[2], NewViolation(log.id + 1, log, t)), log.id + 1>>
    ELSE <<Append(acc[1], log), acc[2], log.id>>

\* lines 190-277: one iteration of the loop, drawing d
iteration(acc, d, t) == collect(acc, ScoredLog(acc[3] + 1, d, t), t)

\* lines 187-277: the first n iterations of the loop; ds is the sequence of
\* draws, k the last identifier used before the loop; the result is
\* <<logs, violations, last identifier used>>
RECURSIVE GenLoop(_, _, _, _)
GenLoop(ds, n, k, t) ==
    IF n = 0 THEN << << >>, << >>, k >>
    ELSE iteration(GenLoop(ds, n - 1, k, t), ds[n], t)

----------------------------------------------------------------------------
(* Requests and responses.                                                 *)

NoBody == [none |-> TRUE]
NoResponse == [op |-> "none", arg |-> None, status |-> 0, detail |-> "",
               body |-> NoBody, result |-> NoBody]

HTTPException(status, detail) == [status |-> status, detail |-> detail]

\* str(e) of an HTTPException: "<status_code>: <detail>"
StrOf(e) ==
    IF e.status = 404 /\ e.detail = "Violation not found"
    THEN "404: Violation not found"
    ELSE IF e.status = 400 /\ e.detail = "Invalid query type"
    THEN "400: Invalid query type"
    ELSE "404: No recent activity found for user"

\* the last exchange: the request (op, arg), the HTTP response (status,
\* detail, body) and, for a resolve, the UpdateResult the store returned
Reply(op, a, status, detail, body) ==
    [op |-> op, arg |-> a, status |-> status, detail |-> detail, body |-> body,
     result |-> NoBody]

Ok(op, a, body) == Reply(op, a, 200, "", body)
Failed(op, a, e) == Reply(op, a, e.status, e.detail, NoBody)

Min2(a, b) == IF a < b THEN a ELSE b
SetMin(S) == CHOOSE x \in S : \A y \in S : x <= y

\* cursor.to_list(n) / .limit(n): at most the first n documents
to_list(docs, n) == SubSeq(docs, 1, Min2(n, Len(docs)))

\* collection.find(query): the matching documents in insertion order
find(docs, Match(_)) == SelectSeq(docs, Match)

\* count_documents(query)
count_documents(docs, Match(_)) == Cardinality({i \in 1..Len(docs) : Match(docs[i])})

\* .sort("access_time", -1): newest first, equal times in insertion order
RECURSIVE InsertDesc(_, _)
InsertDesc(sorted, d) ==
    IF sorted = << >> THEN <<d>>
    ELSE IF Head(sorted).access_time >= d.access_time
         THEN <<Head(sorted)>> \o InsertDesc(Tail(sorted), d)
         ELSE <<d>> \o sorted

RECURSIVE sort_access_time_desc(_)
sort_access_time_desc(docs) ==
    IF docs = << >> THEN << >>
    ELSE InsertDesc(sort_access_time_desc(SubSeq(docs, 1, Len(docs) - 1)),
                    docs[Len(docs)])

Ids(docs) == [i \in 1..Len(docs) |-> docs[i].id]
IdSet(docs) == {docs[i].id : i \in 1..Len(docs)}

----------------------------------------------------------------------------
(* POST /generate-sample-data                                              *)

\* lines 148-150 and 280-285 around the loop: what the store holds after a
\* regeneration that starts from the collection old
cleared_keep(old) == old

cleared(old) == << >>

\* uuid4: identifiers are never handed out twice; those of one regeneration
\* and of the assessments that follow it come from one block
FirstId(g) == g * IdBlock

\* lines 148-150 and 280-285: clear the collections, insert what the loop
\* made (g), answer with the counts
store_generated(g) ==
    /\ access_logs' = cleared(access_logs) \o g[1]
    /\ violations' = cleared(violations) \o g[2]
    /\ risk_assessments' = cleared(risk_assessments)
    /\ next_id' = g[3]
    /\ response' = Ok("generate", None,
                      [logs_generated |-> Len(g[1]),
                       violations_generated |-> Len(g[2])])

generate_sample_data(ds) ==
    store_generated(GenLoop(ds, Len(ds), FirstId(gens + 1), now))

generate_sample_data_endpoint ==
    /\ gens < MaxGens
    /\ \E ds \in DrawSeqs : generate_sample_data(ds)
    /\ gens' = gens + 1
    /\ UNCHANGED <<now, emergent_key, tasks, llm_calls, arg, ret>>

----------------------------------------------------------------------------
(* POST /generate-sample-data, one await at a time.                        *)

Tasks == 1..NumTasks

\* a request that has not started; pc names the await the request is at
IdleTask == [pc |-> "idle", logs |-> << >>, violations |-> << >>]

InFlight(p) ==
    tasks[p].pc \in {"delete_violations", "delete_assessments",
                     "insert_logs", "insert_violations"}

\* line 148, clearing the three collections in one step
delete_logs_and_rest(p) ==
    /\ tasks[p].pc = "idle"
    /\ access_logs' = << >>
    /\ violations' = << >>
    /\ risk_assessments' = << >>
    /\ tasks' = [tasks EXCEPT ![p].pc = "delete_violations"]
    /\ UNCHANGED response

\* line 148: await db.access_logs.delete_many({})
delete_logs(p) ==
    /\ tasks[p].pc = "idle"
    /\ access_logs' = << >>
    /\ tasks' = [tasks EXCEPT ![p].pc = "delete_violations"]
    /\ UNCHANGED <<violations, risk_assessments, response>>

\* line 149: await db.violations.delete_many({})
delete_violations(p) ==
    /\ tasks[p].pc = "delete_violations"
    /\ violations' = << >>
    /\ tasks' = [tasks EXCEPT ![p].pc = "delete_assessments"]
    /\ UNCHANGED <<access_logs, risk_assessments, response>>

\* lines 150-277: await db.risk_assessments.delete_many({}), then the loop,
\* which runs without an await; the identifiers are those of block p
delete_assessments(p) ==
    /\ tasks[p].pc = "delete_assessments"
    /\ risk_assessments' = << >>
    /\ \E ds \in DrawSeqs :
          tasks' = [tasks EXCEPT ![p] =
                      [pc |-> "insert_logs",
                       logs |-> GenLoop(ds, Len(ds), FirstId(p), now)[1],
                       violations |-> GenLoop(ds, Len(ds), FirstId(p), now)[2]]]
    /\ UNCHANGED <<access_logs, violations, response>>

\* lines 280-281: await db.access_logs.insert_many(logs)
insert_logs(p) ==
    /\ tasks[p].pc = "insert_logs"
    /\ access_logs' = access_logs \o tasks[p].logs
    /\ tasks' = [tasks EXCEPT ![p].pc = "insert_violations"]
    /\ UNCHANGED <<violations, risk_assessments, response>>

\* lines 282-285: await db.violations.insert_many(violations), and return
insert_violations(p) ==
    /\ tasks[p].pc = "insert_violations"
    /\ violations' = violations \o tasks[p].violations
    /\ tasks' = [tasks EXCEPT ![p].pc = "done"]
    /\ response' = Ok("generate", None,
                      [logs_generated |-> Len(tasks[p].logs),
                       violations_generated |-> Len(tasks[p].violations)])
    /\ UNCHANGED <<access_logs, risk_assessments>>

\* the server process stops while the request is between two awaits
crash(p) ==
    /\ InFlight(p)
    /\ tasks' = [tasks EXCEPT ![p].pc = "crashed"]
    /\ UNCHANGED <<access_logs, violations, risk_assessments, response>>

Untouched == UNCHANGED <<now, emergent_key, next_id, llm_calls, gens, arg, ret>>

DeleteLogs == (\E p \in Tasks : delete_logs(p)) /\ Untouched
DeleteViolations == (\E p \in Tasks : delete_violations(p)) /\ Untouched
DeleteAssessments == (\E p \in Tasks : delete_assessments(p)) /\ Untouched
InsertLogs == (\E p \in Tasks : insert_logs(p)) /\ Untouched
InsertViolations == (\E p \in Tasks : insert_violations(p)) /\ Untouched
Crash == (\E p \in Tasks : crash(p)) /\ Untouched

----------------------------------------------------------------------------
(* POST /violations/{violation_id}/resolve                                 *)

\* {"$set": {"resolved": True}}
set_resolved_toggle(v) == [v EXCEPT !.resolved = ~v.resolved]

set_resolved(v) == [v EXCEPT !.resolved = TRUE]

\* update_one: the first document with the id is updated
update_one(docs, vid) ==
    LET hits == {i \in 1..Len(docs) : docs[i].id = vid}
    IN  IF hits = {} THEN docs
        ELSE [docs EXCEPT ![SetMin(hits)] = set_resolved(docs[SetMin(hits)])]

\* the UpdateResult of update_one: documents matching the filter, and
\* documents the update changed
UpdateResult(docs, vid) ==
    [matched_count |->
        IF \E i \in 1..Len(docs) : docs[i].id = vid THEN 1 ELSE 0,
     modified_count |->
        IF \E i \in 1..Len(docs) : docs[i].id = vid /\ ~docs[i].resolved
        THEN 1 ELSE 0]

\* line 455
not_found_modified(result) == result.modified_count = 0

not_found(result) == result.matched_count = 0

\* lines 459-460: except Exception, which an HTTPException is
resolve_except(e) == HTTPException(500, StrOf(e))

resolve_violation(vid) ==
    LET result == UpdateResult(violations, vid)
        reply == IF not_found(result)
                 THEN Failed("resolve", vid,
                        resolve_except(HTTPException(404, "Violation not found")))
                 ELSE Ok("resolve", vid,
                         [message |-> "Violation resolved successfully"])
    IN  /\ violations' = update_one(violations, vid)
        /\ response' = [reply EXCEPT !.result = result]
        /\ UNCHANGED <<now, emergent_key, tasks, access_logs, risk_assessments,
                       next_id, llm_calls, gens, arg, ret>>

----------------------------------------------------------------------------
(* GET /users/{user_id}/risk-assessment                                    *)

ToListCap == 100

Fallback == "AI analysis temporarily unavailable. Manual review recommended for comprehensive risk assessment."
LlmText == "llm response"

AppendIf(seq, cond, x) == IF cond THEN Append(seq, x) ELSE seq

AnyDoc(docs, P(_)) == \E i \in 1..Len(docs) : P(docs[i])

OffHours(log) == HourOf(log.access_time) < 7 \/ HourOf(log.access_time) > 19

\* lines 467-471: the user's records of the trailing seven days
in_window(docs, user_id, t) ==
    LET week_ago == DaysAgo(t, 7)
        Match(log) == log.user_id = user_id /\ log.access_time >= week_ago
    IN  find(docs, Match)

recent_logs_of(docs, user_id, t) == to_list(in_window(docs, user_id, t), ToListCap)

recent_logs(user_id, t) == recent_logs_of(access_logs, user_id, t)

\* lines 287-336: outcome is what the collaborator does with the call
ai_analyze_patterns_error_text(logs, outcome) ==
    IF outcome = "ok" THEN LlmText ELSE "AI analysis failed"

ai_analyze_patterns(logs, outcome) ==
    IF outcome = "ok" THEN LlmText ELSE Fallback

\* what the collaborator can do: without an API key it can only fail
LlmOutcomes == IF emergent_key = "none" THEN {"raise"} ELSE {"ok", "raise"}

Scores(logs) == [i \in 1..Len(logs) |-> logs[i].risk_score]

\* lines 483-491
risk_factors_of(user_logs) ==
    LET Many(log) == log.failed_attempts > 3
        Priv(log) == NumChanges(log) > 0
        Flagged(log) == log.is_violation
        f1 == AppendIf(<< >>, AnyDoc(user_logs, Many),
                       "Multiple failed login attempts")
        f2 == AppendIf(f1, AnyDoc(user_logs, Priv), "Recent privilege changes")
        f3 == AppendIf(f2, AnyDoc(user_logs, OffHours),
                       "Off-hours access detected")
    IN  AppendIf(f3, AnyDoc(user_logs, Flagged), "Recent security violations")

\* lines 497-505
recommendations_of(user_logs, avg_risk_score, risk_factors) ==
    LET VeryMany(log) == log.failed_attempts > 5
        r1 == AppendIf(<< >>, FGt(avg_risk_score, F0_6),
                       "Implement additional authentication factors")
        r2 == AppendIf(r1, AnyDoc(user_logs, VeryMany),
                       "Review account security and reset password")
        r3 == AppendIf(r2, Len(risk_factors) > 2,
                       "Conduct security awareness training")
    IN  IF r3 = << >> THEN <<"Continue monitoring user activity">> ELSE r3

\* lines 507-514
RiskAssessment(id, user_id, t, user_logs, ai_analysis) ==
    LET avg_risk_score == FDivInt(FSum(Scores(user_logs)), Len(user_logs))
        risk_factors == risk_factors_of(user_logs)
    IN  [id |-> id, user_id |-> user_id, assessment_date |-> t,
         overall_risk_score |-> avg_risk_score,
         risk_level |-> determine_risk_level(avg_risk_score),
         risk_factors |-> risk_factors,
         recommendations |->
             recommendations_of(user_logs, avg_risk_score, risk_factors),
         ai_analysis |-> ai_analysis]

\* lines 520-523: an HTTPException is re-raised as it is
assessment_except_generic(e) == HTTPException(500, StrOf(e))

assessment_except(e) == e

get_user_risk_assessment(user_id) ==
    LET logs == recent_logs(user_id, now)
    IN  IF logs = << >>
        THEN /\ response' = Failed("assessment", user_id,
                    assessment_except(
                        HTTPException(404, "No recent activity found for user")))
             /\ UNCHANGED <<risk_assessments, next_id, llm_calls>>
        ELSE /\ llm_calls < MaxAssess
             /\ \E outcome \in LlmOutcomes :
                  LET assessment ==
                        RiskAssessment(next_id + 1, user_id, now, logs,
                                       ai_analyze_patterns(logs, outcome))
                  IN  /\ risk_assessments' = Append(risk_assessments, assessment)
                      /\ response' = Ok("assessment", user_id, assessment)
             /\ next_id' = next_id + 1
             /\ llm_calls' = llm_calls + 1

get_user_risk_assessment_endpoint(user_id) ==
    /\ get_user_risk_assessment(user_id)
    /\ UNCHANGED <<now, emergent_key, tasks, access_logs, violations, gens, arg, ret>>

----------------------------------------------------------------------------
(* GET /dashboard/stats                                                     *)

\* lines 364-371: distinct user ids among the records scoring above 0.6
high_risk_users_per_record(docs) ==
    Cardinality({i \in 1..Len(docs) : FGt(docs[i].risk_score, F0_6)})

high_risk_users_of(docs) ==
    Cardinality({docs[i].user_id : i \in
                    {j \in 1..Len(docs) : FGt(docs[j].risk_score, F0_6)}})

\* The compliance score is a float below 128; the scaled pairs used for it
\* stand for the float divided by a power of two, which rounds alike.
\* line 389, the quotient: fl(n / total) / 2^k for 0 < n < total, with
\* k = QuotShift(n, total)
QuotShift(n, total) == IF 16 * n >= total THEN 2 ELSE 0

quotient(n, total) == FDivInt(<<n * 2^(28 - QuotShift(n, total)), 0>>, total)

\* line 389, "* 100": fl(q * 100) / 2^j, where q2 stands for q / 2^k;
\* j = 4 when k = 2 (25 * q/4 = 100 q / 16), j = 0 when k = 0
times_100(q2, k) == IF k = 2 THEN FMulInt(25, q2) ELSE FMulInt(100, q2)

\* round(x, 1) in tenths: the integer nearest 10 x, ties to even; x is
\* <<hi, lo>> * 2^(j - 58) and d = 2^(27 - j), so that 10 x = 5 (hi 2^30 + lo)
\* / (d 2^30)
round_rest(base, rest, half) ==
    IF FGt(rest, half) THEN base + 1
    ELSE IF rest = half THEN base + (base % 2)
    ELSE base

round_scaled(hi, w, d) ==
    round_rest(5 * (hi \div d) + (w[1] \div d), <<w[1] % d, w[2]>>,
               <<d \div 2, 0>>)

round_1(x, d) == round_scaled(x[1], ExactScale(5, <<x[1] % d, x[2]>>), d)

round_shift(x, k) == round_1(x, IF k = 2 THEN 2^23 ELSE 2^27)

percent_tenths(n, total, k) ==
    round_shift(times_100(quotient(n, total), k), k)

\* lines 388-391 and 399: round(compliance_score, 1), in tenths
compliance_score_truncated(total_logs, active_violations) ==
    IF total_logs > 0
    THEN 10 * ((100 * (total_logs - active_violations)) \div total_logs)
    ELSE 1000

compliance_score(total_logs, active_violations) ==
    IF total_logs > 0
    THEN IF active_violations >= total_logs THEN 0
         ELSE IF active_violations = 0 THEN 1000
         ELSE percent_tenths(total_logs - active_violations, total_logs,
                             QuotShift(total_logs - active_violations,
                                       total_logs))
    ELSE 1000

\* count_documents over a collection, by the positions that match
active_violations_of(viols) ==
    Cardinality({i \in 1..Len(viols) : ~viols[i].resolved})

failed_logins_today_of(logs, t) ==
    Cardinality({i \in 1..Len(logs) :
                    /\ logs[i].access_result = "failed"
                    /\ logs[i].access_time >= DayOf(t) * 24})

privilege_escalations_week_of(logs, t) ==
    Cardinality({i \in 1..Len(logs) :
                    /\ logs[i].privilege_changes # << >>
                    /\ logs[i].access_time >= DaysAgo(t, 7)})

\* lines 356-402
get_dashboard_stats ==
    /\ response' = Ok("stats", None,
          [total_access_logs |-> Len(access_logs),
           active_violations |-> active_violations_of(violations),
           high_risk_users |-> high_risk_users_of(access_logs),
           failed_logins_today |-> failed_logins_today_of(access_logs, now),
           privilege_escalations_week |->
               privilege_escalations_week_of(access_logs, now),
           compliance_score |->
               compliance_score(Len(access_logs),
                                active_violations_of(violations))])
    /\ UNCHANGED <<now, emergent_key, tasks, access_logs, violations,
                   risk_assessments, next_id, llm_calls, gens, arg, ret>>

----------------------------------------------------------------------------
(* GET /access-logs                                                        *)

\* lines 418-426: the risk_score condition of the query for a risk level
risk_filter_closed(risk_level, score) ==
    IF risk_level = "critical" THEN FGe(score, F0_8)
    ELSE IF risk_level = "high" THEN FGe(score, F0_6) /\ FLe(score, F0_8)
    ELSE IF risk_level = "medium" THEN FGe(score, F0_3) /\ FLe(score, F0_6)
    ELSE FLe(score, F0_3)

risk_filter(risk_level, score) ==
    IF risk_level = "critical" THEN FGe(score, F0_8)
    ELSE IF risk_level = "high" THEN FGe(score, F0_6) /\ FLt(score, F0_8)
    ELSE IF risk_level = "medium" THEN FGe(score, F0_3) /\ FLt(score, F0_6)
    ELSE FLt(score, F0_3)

\* lines 413-426: does the record match the query built from the parameters?
access_logs_query(violations_only, risk_level, log) ==
    /\ violations_only => log.is_violation
    /\ risk_level # None => risk_filter(risk_level, log.risk_score)

\* cursor.skip(n)
skip_docs(docs, n) == SubSeq(docs, n + 1, Len(docs))

\* line 428: find(query).sort("access_time", -1).skip(skip).limit(limit)
access_logs_found(docs, q) ==
    LET Match(log) == access_logs_query(q.violations_only, q.risk_level, log)
    IN  to_list(skip_docs(sort_access_time_desc(find(docs, Match)), q.skip),
                q.limit)

\* a request's query parameters; limit = 100 and skip = 0 are the defaults
AccessLogsArgs ==
    {[limit |-> p[1], skip |-> p[2], violations_only |-> vo, risk_level |-> rl] :
        p \in {<<100, 0>>, <<1, 1>>}, vo \in BOOLEAN,
        rl \in RiskLevel \cup {None}}

get_access_logs(q) ==
    /\ response' = [Ok("access_logs", None, access_logs_found(access_logs, q))
                        EXCEPT !.result = q]
    /\ UNCHANGED <<now, emergent_key, tasks, access_logs, violations,
                   risk_assessments, next_id, llm_calls, gens, arg, ret>>

----------------------------------------------------------------------------
(* GET /analytics/trends                                                   *)

\* lines 532-548: the counts of the day i days before t
daily(docs, t, i) ==
    LET day_start == ReplaceHour(DaysAgo(t, i), 0)
        day_end == day_start + 24
        days == {j \in 1..Len(docs) : /\ docs[j].access_time >= day_start
                                      /\ docs[j].access_time < day_end}
    IN  [date |-> DayOf(day_start),
         total_access |-> Cardinality(days),
         violations |-> Cardinality({j \in days : docs[j].is_violation})]

\* lines 531-551: seven days, reversed to run from the oldest to the newest
access_trends(docs, t) == [k \in 1..7 |-> daily(docs, t, 7 - k)]

\* lines 554-561: the flagged records grouped by violation type
violation_groups(docs) ==
    LET Count(vt) == Cardinality({j \in 1..Len(docs) :
                        docs[j].is_violation /\ docs[j].violation_type = vt})
    IN  {[id |-> vt, count |-> Count(vt)] :
            vt \in {v \in ViolationType : Count(v) > 0}}

\* lines 560-564: $sort by count descending, then $limit 5 and to_list(5);
\* the order of groups with equal counts is not fixed
top_violation_types(groups) ==
    {to_list(s, 5) : s \in
        {f \in [1..Cardinality(groups) -> groups] :
            \A i, j \in 1..Cardinality(groups) :
                i < j => f[i] # f[j] /\ f[i].count >= f[j].count}}

\* lines 568-573: $bucket over risk_score; a bucket holds lower <= score <
\* upper, and a score in no bucket goes to the default bucket "high"
boundaries == <<FZero, F0_3, F0_6, F0_8, F1_0>>
BucketIds == <<"0", "0.3", "0.6", "0.8", "high">>

bucket_of(score) ==
    IF \E k \in 1..4 : FGe(score, boundaries[k]) /\ FLt(score, boundaries[k + 1])
    THEN CHOOSE k \in 1..4 :
            FGe(score, boundaries[k]) /\ FLt(score, boundaries[k + 1])
    ELSE 5

\* the non-empty buckets, sorted by id: numbers first, the string last
bucket(docs) ==
    LET Count(k) == Cardinality({j \in 1..Len(docs) :
                        bucket_of(docs[j].risk_score) = k})
        NonEmpty(b) == b.count > 0
    IN  SelectSeq([k \in 1..5 |-> [id |-> BucketIds[k], count |-> Count(k)]],
                  NonEmpty)

\* line 577: aggregate(risk_pipeline).to_list(4)
risk_distribution(docs) == to_list(bucket(docs), 4)

get_analytics_trends ==
    /\ \E top \in top_violation_types(violation_groups(access_logs)) :
          response' = Ok("trends", None,
                         [access_trends |-> access_trends(access_logs, now),
                          top_violation_types |-> top,
                          risk_distribution |-> risk_distribution(access_logs)])
    /\ UNCHANGED <<now, emergent_key, tasks, access_logs, violations,
                   risk_assessments, next_id, llm_calls, gens, arg, ret>>

----------------------------------------------------------------------------
(* POST /sql-query                                                         *)

QueryTypes == {"unauthorized_access", "privilege_escalation",
               "segregation_conflicts", "failed_logins", "off_hours_access"}

\* lines 604-647: the matching records, newest first, capped
sql_results(query_type) ==
    LET Unauthorized(log) ==
            \/ log.access_result = "failed" /\ log.failed_attempts > 3
            \/ log.access_result = "suspicious"
            \/ log.is_violation /\ log.violation_type = "unauthorized_access"
        Escalation(log) == log.privilege_changes # << >>
        Segregation(log) == log.violation_type = "segregation_duty_conflict"
        FailedLogin(log) == log.access_result = "failed"
    IN  IF query_type = "unauthorized_access"
        THEN to_list(sort_access_time_desc(find(access_logs, Unauthorized)), 50)
        ELSE IF query_type = "privilege_escalation"
        THEN to_list(sort_access_time_desc(find(access_logs, Escalation)), 50)
        ELSE IF query_type = "segregation_conflicts"
        THEN to_list(sort_access_time_desc(find(access_logs, Segregation)), 50)
        ELSE IF query_type = "failed_logins"
        THEN to_list(sort_access_time_desc(find(access_logs, FailedLogin)), 100)
        ELSE to_list(sort_access_time_desc(find(access_logs, OffHours)), 50)

\* lines 661-663: except Exception, which an HTTPException is
sql_except(e) == HTTPException(500, StrOf(e))

\* query_type is request.get("query_type"): None when the key is missing
execute_sql_query(query_type) ==
    /\ response' =
          IF query_type \in QueryTypes
          THEN Ok("sql_query", query_type,
                  [query_type |-> query_type,
                   results_count |-> Len(sql_results(query_type)),
                   results |-> Ids(sql_results(query_type))])
          ELSE Failed("sql_query", query_type,
                      sql_except(HTTPException(400, "Invalid query type")))
    /\ UNCHANGED <<now, emergent_key, tasks, access_logs, violations,
                   risk_assessments, next_id, llm_calls, gens, arg, ret>>

----------------------------------------------------------------------------
(* The clock, and the harness that applies the pure functions to inputs.   *)

Tick ==
    /\ now < StartTime + MaxTicks * TickHours
    /\ now' = now + TickHours
    /\ UNCHANGED <<emergent_key, tasks, access_logs, violations, risk_assessments,
                   next_id, llm_calls, gens, response, arg, ret>>

NoLog == [failed_attempts |-> 0, privilege_changes |-> << >>,
          access_result |-> "success", access_time |-> StartTime,
          is_violation |-> FALSE, violation_type |-> None,
          risk_score |-> FZero]
NoArg == [kind |-> "none", log |-> NoLog, score |-> FZero,
          total |-> 0, active |-> 0, logs |-> << >>]
NoRet == [fn |-> "none", val |-> None]

PrivInputs == {<< >>, <<"elevated_to_admin">>,
               <<"elevated_to_admin", "access_granted_finance">>,
               <<"elevated_to_admin", "access_granted_finance",
                 "removed_hr_access">>}

TimeInputs == {d * 24 + h : d \in (DayOf(StartTime) - 6)..DayOf(StartTime),
                            h \in {0, 6, 7, 12, 19, 20, 23}}

LogInputs ==
    {[NoLog EXCEPT !.failed_attempts = fa, !.privilege_changes = pc,
                   !.access_result = r, !.access_time = t] :
        fa \in 0..MaxFailed, pc \in PrivInputs, r \in AccessResult,
        t \in TimeInputs}

FSucc(x) == Carry(x[1], x[2] + Ulp(x[1]))     \* the next double up
FPred(x) ==                                   \* the next double down
    LET below == IF x[2] = 0 THEN <<x[1] - 1, Limb - 1>> ELSE <<x[1], x[2] - 1>>
    IN  <<below[1], below[2] - (below[2] % Ulp(below[1]))>>

ScoreInputs ==
    LET marks == {F0_2, F0_3, F0_5, F0_6, F0_8, F1_0,
                  FAdd(F0_2, F0_2), FAdd(F0_5, F0_2),
                  FAdd(F0_6, F0_3), FAdd(F1_0, F0_2)}
    IN  {FZero} \cup marks \cup {FSucc(m) : m \in marks}
                \cup {FPred(m) : m \in marks}

\* record counts and counts of unresolved violations
CountInputs ==
    {[NoArg EXCEPT !.kind = "counts", !.total = t, !.active = a] :
        t \in 0..MaxTotal, a \in 0..(MaxTotal + 1)}

\* the records of one user in the trailing week: n records of which those
\* at the positions hot score 1.0 and the others 0.0
WindowLogs(n, hot) ==
    [i \in 1..n |->
        ScoredLog(i, IF i \in hot THEN SampleDraws[2] ELSE SampleDraws[1],
                  StartTime)]

WindowSizes == {1, 2, 3, ToListCap - 1, ToListCap, ToListCap + 1}

HotSets(n) == {{}, {1, 2} \cap (1..n), {1, 2, n} \cap (1..n), {1, 2, 3} \cap (1..n)}

WindowInputs ==
    {[NoArg EXCEPT !.kind = "window", !.logs = WindowLogs(w[1], w[2])] :
        w \in {v \in WindowSizes \X SUBSET {1, 2, 3, ToListCap + 1} :
                  v[2] \in HotSets(v[1])}}

InitFn ==
    /\ now = StartTime
    /\ emergent_key = "none"
    /\ access_logs = << >>
    /\ violations = << >>
    /\ risk_assessments = << >>
    /\ next_id = 0
    /\ llm_calls = 0
    /\ gens = 0
    /\ response = NoResponse
    /\ tasks = [p \in Tasks |-> IdleTask]
    /\ arg \in {[NoArg EXCEPT !.kind = "log", !.log = l] : l \in LogInputs}
           \cup {[NoArg EXCEPT !.kind = "score", !.score = x] : x \in ScoreInputs}
           \cup CountInputs
           \cup WindowInputs
    /\ ret = NoRet

CallScore ==
    /\ arg.kind = "log" /\ ret.fn = "none"
    /\ ret' = [fn |-> "calculate_risk_score",
               val |-> calculate_risk_score(arg.log)]
    /\ UNCHANGED <<now, emergent_key, tasks, access_logs, violations,
                   risk_assessments, next_id, llm_calls, gens, response, arg>>

CallClassify ==
    /\ arg.kind = "log" /\ ret.fn = "none"
    /\ ret' = [fn |-> "score_and_classify",
               val |-> score_and_classify(arg.log, HourOf(arg.log.access_time))]
    /\ UNCHANGED <<now, emergent_key, tasks, access_logs, violations,
                   risk_assessments, next_id, llm_calls, gens, response, arg>>

CallLevel ==
    /\ arg.kind = "score" /\ ret.fn = "none"
    /\ ret' = [fn |-> "determine_risk_level",
               val |-> determine_risk_level(arg.score)]
    /\ UNCHANGED <<now, emergent_key, tasks, access_logs, violations,
                   risk_assessments, next_id, llm_calls, gens, response, arg>>

CallCompliance ==
    /\ arg.kind = "counts" /\ ret.fn = "none"
    /\ ret' = [fn |-> "compliance_score",
               val |-> compliance_score(arg.total, arg.active)]
    /\ UNCHANGED <<now, emergent_key, tasks, access_logs, violations,
                   risk_assessments, next_id, llm_calls, gens, response, arg>>

\* lines 466-480 and 507-514: the assessment of the first sample user
CallAssessment ==
    /\ arg.kind = "window" /\ ret.fn = "none"
    /\ ret' = [fn |-> "get_user_risk_assessment",
               val |-> RiskAssessment(0, USR001[1], now,
                           recent_logs_of(arg.logs, USR001[1], now), Fallback)]
    /\ UNCHANGED <<now, emergent_key, tasks, access_logs, violations,
                   risk_assessments, next_id, llm_calls, gens, response, arg>>

NextFn ==
    \/ CallScore
    \/ CallClassify
    \/ CallLevel
    \/ CallCompliance
    \/ CallAssessment

SpecFn == InitFn /\ [][NextFn]_vars

----------------------------------------------------------------------------
(* The service.                                                            *)

UserIdArgs == {"USR001", "USR002", "USR999"}
QueryTypeArgs == QueryTypes \cup {"bogus", None}

Init ==
    /\ now = StartTime
    /\ emergent_key \in {"none", "key"}
    /\ access_logs = << >>
    /\ violations = << >>
    /\ risk_assessments = << >>
    /\ next_id = 0
    /\ llm_calls = 0
    /\ gens = 0
    /\ response = NoResponse
    /\ tasks = [p \in Tasks |-> IdleTask]
    /\ arg = NoArg
    /\ ret = NoRet

\* path parameters tried: an identifier never handed out, the identifier of
\* a record of another collection, and those of the stored violations
ViolationIdArgs ==
    {0} \cup IdSet(violations)
        \cup (IF access_logs = << >> THEN {} ELSE {access_logs[1].id})
Resolve == \E vid \in ViolationIdArgs : resolve_violation(vid)
Assess == \E user_id \in UserIdArgs : get_user_risk_assessment_endpoint(user_id)
SqlQuery == \E query_type \in QueryTypeArgs : execute_sql_query(query_type)

Next ==
    \/ generate_sample_data_endpoint
    \/ Resolve
    \/ Assess
    \/ get_dashboard_stats
    \/ SqlQuery
    \/ Tick

Spec == Init /\ [][Next]_vars

----------------------------------------------------------------------------
(* The read endpoints over the stores a regeneration can leave.            *)

\* the draws of one regeneration of at most MaxStore records, in the order
\* of BandDraws
StoreDrawSeqs ==
    UNION {{[i \in 1..n |-> BandDraws[f[i]]] :
                f \in {g \in [1..n -> 1..Len(BandDraws)] :
                          \A i \in 1..(n - 1) : g[i] <= g[i + 1]}} :
           n \in 0..MaxStore}

GenerateStore ==
    /\ gens = 0
    /\ \E ds \in StoreDrawSeqs : generate_sample_data(ds)
    /\ gens' = gens + 1
    /\ UNCHANGED <<now, emergent_key, tasks, llm_calls, arg, ret>>

AccessLogs == \E q \in AccessLogsArgs : get_access_logs(q)

NextStore ==
    \/ GenerateStore
    \/ AccessLogs
    \/ get_analytics_trends

SpecStore == Init /\ [][NextStore]_vars

----------------------------------------------------------------------------
(* Regenerations that overlap.                                             *)

\* the API key plays no part in a regeneration
InitConc == Init /\ emergent_key = "none"

NextConc ==
    \/ DeleteLogs
    \/ DeleteViolations
    \/ DeleteAssessments
    \/ InsertLogs
    \/ InsertViolations
    \/ Crash

SpecConc == InitConc /\ [][NextConc]_vars

----------------------------------------------------------------------------
(* Properties.                                                             *)

IsRegeneration == gens' # gens

\* the step handles a request of kind op (every step but Tick is a request)
Handled(op) == now' = now /\ response'.op = op

\* the user has no record in the trailing seven days
NoRecentRecord(user_id) ==
    \A i \in 1..Len(access_logs) :
        access_logs[i].user_id = user_id
            => access_logs[i].access_time < now - 7 * 24

\* the violation document with a given id, in a collection
ViolationById(docs, vid) == docs[CHOOSE i \in 1..Len(docs) : docs[i].id = vid]

\* C1: a resolve whose id matched no stored violation (the store reports
\* matched_count = 0, so no stored violation was changed) is answered with
\* status 404.
C1_UnknownIdAnswers404 ==
    (response.op = "resolve" /\ response.result.matched_count = 0)
        => response.status = 404

\* C2: a query_type outside the five named queries answers 400 with the
\* detail "Invalid query type"; each named type answers 200 with a
\* results_count.
C2_SqlQueryStatus ==
    response.op = "sql_query" =>
        IF response.arg \in QueryTypes
        THEN response.status = 200 /\ response.body.results_count \in Nat
        ELSE response.status = 400 /\ response.detail = "Invalid query type"

\* C3: a risk-assessment request for a user with no record in the trailing
\* seven days answers 404, inserts no assessment and does not call the
\* text-generation collaborator.
C3_NoRecentActivity404 ==
    [][(Handled("assessment") /\ NoRecentRecord(response'.arg))
          => /\ response'.status = 404
             /\ risk_assessments' = risk_assessments
             /\ llm_calls' = llm_calls]_vars

\* C3 witness: a user who has stored records, none of them recent, got 404
C3_Witness ==
    /\ response.op = "assessment" /\ response.status = 404
    /\ \E i \in 1..Len(access_logs) : access_logs[i].user_id = response.arg
    /\ NoRecentRecord(response.arg)

\* C4: the dashboard-stats call that follows a regeneration reports
\* total_access_logs equal to the logs_generated the regeneration returned.
C4_StatsAfterGeneration ==
    [][(response.op = "generate" /\ response.status = 200
            /\ Handled("stats"))
          => response'.body.total_access_logs = response.body.logs_generated]_vars

\* C4 witness: stats answered after a second regeneration, the earlier data
\* having been replaced
C4_Witness ==
    /\ response.op = "stats" /\ response.status = 200
    /\ gens >= 2
    /\ response.body.total_access_logs = Len(access_logs)
    /\ Len(access_logs) > 0

\* C5: resolving an existing violation answers 200 and leaves it resolved,
\* and when it was resolved already the store is left as it was.
C5_ResolveIdempotent ==
    [][(Handled("resolve") /\ response'.arg \in IdSet(violations))
          => /\ response'.status = 200
             /\ ViolationById(violations', response'.arg).resolved
             /\ (ViolationById(violations, response'.arg).resolved
                    => store' = store)]_vars

\* C5 witness: a resolve of a violation that was resolved already answered 200
C5_Witness ==
    /\ response.op = "resolve" /\ response.status = 200
    /\ response.result.matched_count = 1
    /\ response.result.modified_count = 0

\* C6: a violation once resolved is never unresolved again, and outside a
\* regeneration no field of a stored document other than resolved changes.
C6_ResolvedOneWay ==
    [][/\ \A i \in 1..Len(violations) : \A j \in 1..Len(violations') :
             (violations[i].id = violations'[j].id /\ violations[i].resolved)
                 => violations'[j].resolved
       /\ ~IsRegeneration =>
             /\ access_logs' = access_logs
             /\ Len(violations') = Len(violations)
             /\ \A i \in 1..Len(violations) :
                   [violations'[i] EXCEPT !.resolved = violations[i].resolved]
                       = violations[i]
             /\ Len(risk_assessments') >= Len(risk_assessments)
             /\ SubSeq(risk_assessments', 1, Len(risk_assessments))
                   = risk_assessments]_vars

\* C6 witness: a violation is still resolved after a later assessment
C6_Witness ==
    /\ \E i \in 1..Len(violations) : violations[i].resolved
    /\ response.op = "assessment" /\ response.status = 200

----------------------------------------------------------------------------
(* Properties of the pure functions (specification SpecFn).                *)

\* the sum of section 4.1 in exact arithmetic, in tenths
Tenths(log) ==
    2 * log.failed_attempts + 3 * NumChanges(log)
      + (IF log.access_result = "failed" THEN 5
         ELSE IF log.access_result = "suspicious" THEN 8 ELSE 0)
      + (IF OffHours(log) THEN 3 ELSE 0)
      + (IF WeekdayOf(log.access_time) \in {5, 6} THEN 2 ELSE 0)

\* the doubles nearest to 0.0, 0.1, ..., 1.0
NearestTenth ==
    << FZero, <<26843545, 644245096>>, F0_2, F0_3,
       <<107374182, 429496736>>, F0_5, F0_6, <<187904819, 214748352>>,
       F0_8, <<241591910, 429496736>>, F1_0 >>

\* x is the double d or one of its two neighbours
WithinOneUlp(x, d) ==
    \/ x = d
    \/ x = FSucc(d)
    \/ (d # FZero /\ x = FPred(d))

\* C7: for failed_attempts >= 0 calculate_risk_score returns
\* min(1.0, 0.2*failed_attempts + 0.3*count(privilege_changes) + result bonus
\* + off-hours bonus + weekend bonus), up to the rounding of the float sum,
\* so the score lies in [0, 1].
C7_ScoreIsClampedSum ==
    ret.fn = "calculate_risk_score" =>
        /\ FLe(FZero, ret.val) /\ FLe(ret.val, F1_0)
        /\ WithinOneUlp(ret.val, NearestTenth[Min2(10, Tenths(arg.log)) + 1])
        /\ (Tenths(arg.log) >= 10 => ret.val = F1_0)

\* C7 witness: a record whose sum exceeds 1.0 was scored 1.0
C7_Witness ==
    /\ ret.fn = "calculate_risk_score"
    /\ Tenths(arg.log) > 10
    /\ ret.val = F1_0

\* C8: determine_risk_level maps a score to critical from 0.8, high on
\* [0.6, 0.8), medium on [0.3, 0.6) and low below 0.3.
C8_RiskLevelBands ==
    ret.fn = "determine_risk_level" =>
        /\ ret.val \in RiskLevel
        /\ (ret.val = "critical" <=> FGe(arg.score, F0_8))
        /\ (ret.val = "high" <=> (FGe(arg.score, F0_6) /\ FLt(arg.score, F0_8)))
        /\ (ret.val = "medium" <=> (FGe(arg.score, F0_3) /\ FLt(arg.score, F0_6)))
        /\ (ret.val = "low" <=> FLt(arg.score, F0_3))

\* C8 witness: the score 0.6 was mapped to high
C8_Witness ==
    /\ ret.fn = "determine_risk_level"
    /\ arg.score = F0_6
    /\ ret.val = "high"

\* C10: a record flagged as a violation gets the type of the first matching
\* rule: privilege changes, then failed_attempts > 3, then a suspicious
\* result, then off-hours access, else segregation_duty_conflict.
C10_ViolationTypePriority ==
    (ret.fn = "score_and_classify" /\ ret.val.is_violation) =>
        LET log == ret.val
            changed == log.privilege_changes # << >>
            many == log.failed_attempts > 3
            suspicious == log.access_result = "suspicious"
        IN  /\ changed => log.violation_type = "privilege_escalation"
            /\ (~changed /\ many) => log.violation_type = "failed_authentication"
            /\ (~changed /\ ~many /\ suspicious)
                  => log.violation_type = "unusual_activity"
            /\ (~changed /\ ~many /\ ~suspicious /\ OffHours(log))
                  => log.violation_type = "unauthorized_access"
            /\ (~changed /\ ~many /\ ~suspicious /\ ~OffHours(log))
                  => log.violation_type = "segregation_duty_conflict"

\* C10 witness: privilege changes with failed_attempts = 10 were typed
\* privilege_escalation
C10_Witness ==
    /\ ret.fn = "score_and_classify"
    /\ ret.val.privilege_changes # << >>
    /\ ret.val.failed_attempts = 10
    /\ ret.val.is_violation
    /\ ret.val.violation_type = "privilege_escalation"

----------------------------------------------------------------------------
(* Properties of the stored records (specification Spec).                  *)

\* C9: every stored record carries the scorer's result for its fields, is
\* flagged exactly when score > 0.6, failed_attempts > 3, privilege changes
\* or a suspicious result hold, and has a violation type exactly when it is
\* flagged; a record scoring exactly 0.6 with none of the other three
\* conditions is high risk and not flagged.
C9_StoredRecordsConsistent ==
    \A i \in 1..Len(access_logs) :
        LET log == access_logs[i]
            others == \/ log.failed_attempts > 3
                      \/ log.privilege_changes # << >>
                      \/ log.access_result = "suspicious"
        IN  /\ log.risk_score = calculate_risk_score(log)
            /\ log.is_violation <=> (FGt(log.risk_score, F0_6) \/ others)
            /\ (log.violation_type \in ViolationType) <=> log.is_violation
            /\ (log.violation_type = None) <=> ~log.is_violation
            /\ (log.risk_score = F0_6 /\ ~others)
                  => /\ determine_risk_level(log.risk_score) = "high"
                     /\ ~log.is_violation

\* C9 witness: the store holds a record scoring exactly 0.6 (high risk,
\* flagged for its privilege changes) and a record that is not flagged
C9_Witness ==
    /\ \E i \in 1..Len(access_logs) :
          /\ access_logs[i].risk_score = F0_6
          /\ determine_risk_level(access_logs[i].risk_score) = "high"
          /\ access_logs[i].is_violation
    /\ \E i \in 1..Len(access_logs) : ~access_logs[i].is_violation

----------------------------------------------------------------------------

----------------------------------------------------------------------------
(* Dashboard statistics.                                                   *)

\* the distance of v tenths from 100 (total - active) / total, in units of
\* 1 / (10 total)
TenthsOff(v, total, active) ==
    IF v * total >= 1000 * (total - active)
    THEN v * total - 1000 * (total - active)
    ELSE 1000 * (total - active) - v * total

\* C11: the compliance score is 100.0 without records; otherwise it is a
\* one-decimal value nearest to 100 (total - active) / total (total = 10,
\* active = 3 gives 70.0); it lies in [0, 100], and with one violation
\* fewer active it is not smaller.
C11_ComplianceScore ==
    ret.fn = "compliance_score" =>
        /\ ret.val \in 0..1000
        /\ arg.total = 0 => ret.val = 1000
        /\ (arg.total > 0 /\ arg.active <= arg.total) =>
              2 * TenthsOff(ret.val, arg.total, arg.active) <= arg.total
        /\ arg.active > 0 =>
              compliance_score(arg.total, arg.active - 1) >= ret.val
        /\ (arg.total = 10 /\ arg.active = 3) => ret.val = 700

\* seven of ten records without an active violation: 70.0
C11_Witness ==
    /\ ret.fn = "compliance_score"
    /\ arg.total = 10 /\ arg.active = 3
    /\ ret.val = 700

\* the user ids with at least one stored record scoring above 0.6
HighRiskUserIds ==
    {u \in {access_logs[i].user_id : i \in 1..Len(access_logs)} :
        \E i \in 1..Len(access_logs) :
            /\ access_logs[i].user_id = u
            /\ FGt(access_logs[i].risk_score, F0_6)}

\* C12: high_risk_users is the number of distinct user ids with a stored
\* record scoring strictly above 0.6, not the number of such records.
C12_HighRiskUsersDistinct ==
    response.op = "stats" =>
        response.body.high_risk_users = Cardinality(HighRiskUserIds)

\* two records of one user both score above 0.6 and count once
C12_Witness ==
    /\ response.op = "stats"
    /\ response.body.high_risk_users = 1
    /\ \E i, j \in 1..Len(access_logs) :
          /\ i # j
          /\ access_logs[i].user_id = access_logs[j].user_id
          /\ FGt(access_logs[i].risk_score, F0_6)
          /\ FGt(access_logs[j].risk_score, F0_6)

----------------------------------------------------------------------------
(* Risk assessments.                                                       *)

\* the assessment the request computes when the collaborator answers
OnSuccess(a) ==
    RiskAssessment(a.id, a.user_id, a.assessment_date,
                   recent_logs(a.user_id, a.assessment_date), LlmText)

\* C13: a collaborator failure never reaches the caller: an assessment
\* request fails only with 404 for a user without recent records; without
\* an API key the analysis is the static fallback string; and the answer
\* is 200 with the score, level, factors and recommendations of a
\* collaborator success, and is the document persisted.
C13_CollaboratorFailureContained ==
    response.op = "assessment" =>
        IF response.status = 200
        THEN /\ response.body.ai_analysis \in {LlmText, Fallback}
             /\ emergent_key = "none" => response.body.ai_analysis = Fallback
             /\ [response.body EXCEPT !.ai_analysis = LlmText]
                    = OnSuccess(response.body)
             /\ risk_assessments # << >>
             /\ risk_assessments[Len(risk_assessments)] = response.body
        ELSE /\ response.status = 404
             /\ NoRecentRecord(response.arg)

\* without an API key the request is answered 200 with the fallback text
C13_Witness ==
    /\ emergent_key = "none"
    /\ response.op = "assessment" /\ response.status = 200
    /\ response.body.ai_analysis = Fallback
    /\ risk_assessments # << >>
    /\ risk_assessments[Len(risk_assessments)] = response.body
    /\ response.body.risk_factors # << >>

\* a 200 answer to an assessment request: one document appended, new id
InsertsOneFresh ==
    /\ Len(risk_assessments') = Len(risk_assessments) + 1
    /\ \A i \in 1..Len(risk_assessments) :
          risk_assessments'[Len(risk_assessments')].id # risk_assessments[i].id

\* every persisted assessment is still stored, with the same contents
Retained ==
    /\ Len(risk_assessments') >= Len(risk_assessments)
    /\ \A i \in 1..Len(risk_assessments) :
          risk_assessments'[i] = risk_assessments[i]

\* C14: each successful assessment request inserts exactly one new
\* document with a fresh id, and over every operation a persisted
\* assessment stays in the store with unchanged contents.
C14_AssessmentsRetained ==
    [][/\ (Handled("assessment") /\ response'.status = 200) => InsertsOneFresh
       /\ Retained]_vars

\* the mean of the scores of all the records given
MeanOfAll(logs) == FDivInt(FSum(Scores(logs)), Len(logs))

\* C15: the overall score of an assessment is the arithmetic mean of the
\* scores of all the user's records of the trailing seven days, however
\* many there are, and its risk level is determine_risk_level of that mean.
C15_MeanOfWholeWindow ==
    ret.fn = "get_user_risk_assessment" =>
        /\ ret.val.overall_risk_score
              = MeanOfAll(in_window(arg.logs, USR001[1], now))
        /\ ret.val.risk_level
              = determine_risk_level(
                    MeanOfAll(in_window(arg.logs, USR001[1], now)))

----------------------------------------------------------------------------
(* Properties of the read endpoints (specification SpecStore).             *)

RECURSIVE SumCounts(_)
SumCounts(buckets) ==
    IF buckets = << >> THEN 0
    ELSE Head(buckets).count + SumCounts(Tail(buckets))

\* C16: the risk distribution counts every stored record in exactly one
\* returned bucket: the returned counts sum to the number of stored
\* records, those scoring exactly 1.0 included.
C16_DistributionCountsAll ==
    (response.op = "trends" /\ response.status = 200) =>
        SumCounts(response.body.risk_distribution) = Len(access_logs)

\* the stored records a request with parameters q asks for
Wanted(q) ==
    {access_logs[i].id : i \in
        {j \in 1..Len(access_logs) :
            /\ q.violations_only => access_logs[j].is_violation
            /\ q.risk_level # None =>
                  determine_risk_level(access_logs[j].risk_score) = q.risk_level}}

\* C19: the risk_level filter of GET /access-logs agrees with the
\* classifier: a stored record satisfies the filter for level L exactly
\* when determine_risk_level of its score is L (so the four filters
\* partition the records); the records returned are stored records of the
\* level asked for, all of them when nothing is skipped or cut off; and
\* with violations_only they are all flagged.
C19_FilterAgreesWithClassifier ==
    /\ \A i \in 1..Len(access_logs) : \A L \in RiskLevel :
          risk_filter(L, access_logs[i].risk_score)
              <=> determine_risk_level(access_logs[i].risk_score) = L
    /\ response.op = "access_logs" =>
          /\ response.status = 200
          /\ IdSet(response.body) \subseteq Wanted(response.result)
          /\ Cardinality(IdSet(response.body)) = Len(response.body)
          /\ (response.result.skip = 0
                /\ response.result.limit >= Len(access_logs))
              => IdSet(response.body) = Wanted(response.result)
          /\ \A i \in 1..Len(response.body) :
                response.result.violations_only => response.body[i].is_violation

\* flagged records of level high are asked for: one scoring exactly 0.6 is
\* returned, and a stored record of another level is not
C19_Witness ==
    /\ response.op = "access_logs"
    /\ response.result.risk_level = "high"
    /\ response.result.violations_only
    /\ \E i \in 1..Len(response.body) : response.body[i].risk_score = F0_6
    /\ Len(response.body) < Len(access_logs)
    /\ \E i \in 1..Len(access_logs) :
          /\ access_logs[i].risk_score = F0_8
          /\ access_logs[i].id \notin IdSet(response.body)

----------------------------------------------------------------------------
(* Violations and flagged records (specification Spec).                    *)

LogsWithId(id) == {i \in 1..Len(access_logs) : access_logs[i].id = id}
ViolationsOfLog(id) == {j \in 1..Len(violations) : violations[j].log_id = id}
FlaggedLogs == {i \in 1..Len(access_logs) : access_logs[i].is_violation}

\* the violation is that of exactly one stored record, a flagged one, and
\* carries its type and the risk level of its score
Matches(v) ==
    /\ Cardinality(LogsWithId(v.log_id)) = 1
    /\ \A i \in LogsWithId(v.log_id) :
          /\ access_logs[i].is_violation
          /\ v.violation_type = access_logs[i].violation_type
          /\ v.severity = determine_risk_level(access_logs[i].risk_score)

\* C18: violations and flagged records correspond one to one: every
\* violation belongs to exactly one stored record, which is flagged and has
\* the violation's type and a score of the violation's severity; every
\* flagged record has exactly one violation; right after a regeneration no
\* violation is resolved and violations_generated is the number of flagged
\* records, at most logs_generated.  Resolving and assessing keep this.
C18_ViolationsMatchFlaggedLogs ==
    /\ \A j \in 1..Len(violations) : Matches(violations[j])
    /\ \A i \in FlaggedLogs :
          Cardinality(ViolationsOfLog(access_logs[i].id)) = 1
    /\ response.op = "generate" =>
          /\ \A j \in 1..Len(violations) : ~violations[j].resolved
          /\ response.body.violations_generated = Cardinality(FlaggedLogs)
          /\ response.body.violations_generated = Len(violations)
          /\ response.body.logs_generated = Len(access_logs)
          /\ response.body.violations_generated <= response.body.logs_generated

\* a regeneration has left a flagged record with its violation beside a
\* record that is not flagged
C18_Witness ==
    /\ response.op = "generate"
    /\ violations # << >>
    /\ Cardinality(FlaggedLogs) < Len(access_logs)
    /\ \E j \in 1..Len(violations) :
          violations[j].violation_type = "privilege_escalation"

----------------------------------------------------------------------------
(* Regeneration step by step (specification SpecConc).                     *)

Started == {p \in Tasks : tasks[p].pc # "idle"}

\* a step writes at most one of the three collections
OneCollectionPerStep == Cardinality({k \in 1..3 : store'[k] # store[k]}) <= 1

\* some violation's log_id is the id of no stored record
Dangling ==
    \E j \in 1..Len(violations) : LogsWithId(violations[j].log_id) = {}

\* one regeneration has run, alone and to its end
SoloDone ==
    /\ Cardinality(Started) = 1
    /\ \A p \in Started : tasks[p].pc = "done"

\* C17: bulk regeneration is not atomic: it clears the three collections
\* and inserts the logs and then the violations in separate steps, each
\* writing one collection, so a crash or another request between two steps
\* finds the store partly cleared or partly populated, and two overlapping
\* regenerations can leave violations of no stored record; a regeneration
\* that ran alone and to its end leaves none.
C17_RegenerationStepwise ==
    /\ [][OneCollectionPerStep]_vars
    /\ [](SoloDone => /\ ~Dangling
                      /\ \A i \in FlaggedLogs :
                            ViolationsOfLog(access_logs[i].id) # {})

\* two regenerations have overlapped and both returned, and a violation of
\* no stored record is left
C17_Witness ==
    /\ \A p \in Tasks : tasks[p].pc = "done"
    /\ Dangling
    /\ access_logs # << >>

====
